---- MODULE Spec2Model ----
(***************************************************************************)
(* State-machine model of the SaaS backend in src/main.py: the signup,     *)
(* login, blog listing, contact and health handlers, run by concurrent     *)
(* workers against one shared document store.  Every store call of a       *)
(* handler is one atomic step; a handler that makes several store calls    *)
(* (signup, list_blogs) can be interleaved with other workers between      *)
(* them.  The store adapter (database.py) is not part of the sources and   *)
(* is modelled from section 4.2 of the specification.                      *)
(***************************************************************************)
EXTENDS Integers, Sequences, FiniteSets, Bags, TLC

VARIABLES db, user, blogpost, contactmessage, pc, req, idx, out

vars == <<db, user, blogpost, contactmessage, pc, req, idx, out>>

collections == <<user, blogpost, contactmessage>>

(* ------------------------------ bounds --------------------------------- *)

\* Largest number of seeding runs (earlier first calls of the blog listing)
\* whose documents the store may hold when the listing specification
\* starts: enough to hold more documents than the listing's limit.
MaxSeeders == 7
\* Cap on the number of stored contact messages (keeps the model finite).
MaxContacts == 1

\* The worker pools of the server: one worker, which handles requests one
\* at a time, or two concurrent workers, the smallest pool in which two
\* handlers interleave their store calls.
Pools == {{1}, {1, 2}}

Names == {"Ada"}
\* The names of the auth-only specification.
AuthNames == {"Ada", "Bob"}
Emails == {"ada@x.com", "bob@x.com"}
Passwords == {"secret", "hunter2"}
Messages == {"hello"}
\* str(uuid.uuid4()): a fresh random token; no handler ever reads one back.
Tokens == {"uuid4"}

(* --------------------------- pure functions ---------------------------- *)

\* sha256(pw).hexdigest(): deterministic, injective on the modelled
\* passwords, and never equal to the plaintext.
_hash_password(pw) == <<"sha256", pw>>

\* User(name, email, password_hash, is_active=True)
UserSchema(name, email, password_hash) ==
    [name |-> name, email |-> email, password_hash |-> password_hash,
     is_active |-> TRUE]

\* ContactMessage(name, email, message)
ContactMessageSchema(name, email, message) ==
    [name |-> name, email |-> email, message |-> message]

\* The three demo posts of list_blogs, in the order of the seeding loop.
samples ==
    << [title |-> "Launching our next-gen platform",
        slug |-> "launching-next-gen-platform",
        excerpt |-> "How we built a blazing fast, secure, and scalable foundation.",
        content |-> "We are excited to unveil our next-gen SaaS platform...",
        tags |-> <<"announcement", "platform">>,
        author |-> "Team",
        published |-> TRUE],
       [title |-> "Designing with 3D: Tips & Tricks",
        slug |-> "designing-with-3d",
        excerpt |-> "Bring depth and motion into your product storytelling.",
        content |-> "3D in the browser is more accessible than ever...",
        tags |-> <<"design", "3d">>,
        author |-> "Design",
        published |-> TRUE],
       [title |-> "Security best practices for startups",
        slug |-> "security-best-practices",
        excerpt |-> "Practical guidance to keep your users safe.",
        content |-> "Security is a journey. In this post we cover...",
        tags |-> <<"security">>,
        author |-> "Security",
        published |-> TRUE] >>

\* BlogItem(title, slug, excerpt, content, tags, author): the response shape
\* drops the stored "published" field.
BlogItem(d) ==
    [title |-> d.title, slug |-> d.slug, excerpt |-> d.excerpt,
     content |-> d.content, tags |-> d.tags, author |-> d.author]

\* limit=20 of both get_documents calls in list_blogs.
BlogLimit == 20

(* ------------------------------- bags ---------------------------------- *)

BagAdd(B, d) == B (+) SetToBag({d})

RECURSIVE BlogItemsOf(_, _)
\* The response items of list_blogs: BlogItem(d) for every document d of the
\* bag docs (S is the part of the bag's domain still to map).
BlogItemsOf(docs, S) ==
    IF S = {} THEN EmptyBag
    ELSE LET d == CHOOSE x \in S : TRUE
         IN [x \in {BlogItem(d)} |-> docs[d]] (+) BlogItemsOf(docs, S \ {d})

BlogItems(docs) == BlogItemsOf(docs, DOMAIN docs)

(* ------------------------- document store adapter ---------------------- *)

\* An equality filter: a mapping of field name to expected value; the empty
\* mapping matches every document.
NoFilter == <<>>

Matches(d, filter) ==
    \A k \in DOMAIN filter : k \in DOMAIN d /\ d[k] = filter[k]

Matching(coll, filter) ==
    LET S == {d \in DOMAIN coll : Matches(d, filter)}
    IN [d \in S |-> coll[d]]

Min(a, b) == IF a < b THEN a ELSE b

\* get_documents(collection, filter, limit): the results the store may
\* return: at most `limit` of the matching documents.  The store imposes no
\* order, so which of the matching documents are kept is not determined.
get_documents(coll, filter, limit) ==
    LET M == Matching(coll, filter)
        n == Min(limit, BagCardinality(M))
    IN {R \in SubBag(M) : BagCardinality(R) = n}

\* create_document(collection, entity): one new document in the collection.
create_document(coll, entity) == BagAdd(coll, entity)

\* The store serves reads and writes only over a live connection.
Live == db = "connected"

\* The outcomes of one insert: accepted (TRUE) or failed (FALSE).  Without a
\* live connection every insert fails fast (StoreUnavailableError); over a
\* live connection an insert may still fail (StoreWriteError).
WriteOutcomes == IF Live THEN {TRUE, FALSE} ELSE {FALSE}

(* ------------------------------ responses ------------------------------ *)

\* raise HTTPException(status_code, detail)
HTTPException(status_code, detail) ==
    [status |-> status_code, body |-> [detail |-> detail]]

\* An exception of the store adapter is not caught by any handler but
\* test_database: the framework answers 500.
UnhandledFault == [status |-> 500, body |-> [detail |-> "Internal Server Error"]]

AuthResponse(token, name, email) ==
    [status |-> 200, body |-> [token |-> token, name |-> name, email |-> email]]

ContactResponse(status) == [status |-> 200, body |-> [status |-> status]]

BlogsResponse(docs) == [status |-> 200, body |-> BlogItems(docs)]

NoReq == [kind |-> "none"]
NoOut == [proc |-> 0, req |-> NoReq, resp |-> [status |-> 0, body |-> <<>>]]

Procs == DOMAIN pc

\* Worker p ends its handling of request rq with response r; out is the
\* response on the wire.
Finish(p, rq, r) ==
    /\ pc' = [pc EXCEPT ![p] = "done"]
    /\ req' = [req EXCEPT ![p] = NoReq]
    /\ out' = [proc |-> p, req |-> rq, resp |-> r]

\* Worker p goes on to the next store call of its handling of request rq.
Goto(p, rq, label) ==
    /\ pc' = [pc EXCEPT ![p] = label]
    /\ req' = [req EXCEPT ![p] = rq]
    /\ out' = out

(* ------------------------------- signup -------------------------------- *)

SignupRequest(name, email, password) ==
    [kind |-> "signup", name |-> name, email |-> email, password |-> password]

\* signup with its existence check keyed on name and email.
SignupOfNameKeyed(p, names) ==
    /\ pc[p] = "idle"
    /\ \E name \in names, email \in Emails, password \in Passwords :
         LET payload == SignupRequest(name, email, password)
         IN IF ~Live
            THEN Finish(p, payload, UnhandledFault)
            ELSE \E existing \in get_documents(user, [email |-> email,
                                                      name |-> name], 1) :
                   IF existing # EmptyBag
                   THEN Finish(p, payload,
                               HTTPException(400, "Email already registered"))
                   ELSE Goto(p, payload, "signup_create")
    /\ UNCHANGED <<db, collections, idx>>

\* signup, up to its existence check: get_documents("user", {email}, 1),
\* for a payload whose name is one of `names`.
SignupOf(p, names) ==
    /\ pc[p] = "idle"
    /\ \E name \in names, email \in Emails, password \in Passwords :
         LET payload == SignupRequest(name, email, password)
         IN IF ~Live
            THEN Finish(p, payload, UnhandledFault)
            ELSE \E existing \in get_documents(user, [email |-> email], 1) :
                   IF existing # EmptyBag
                   THEN Finish(p, payload,
                               HTTPException(400, "Email already registered"))
                   ELSE Goto(p, payload, "signup_create")
    /\ UNCHANGED <<db, collections, idx>>

Signup(p) == SignupOf(p, Names)

SignupAuth(p) == SignupOf(p, AuthNames)

\* signup, from create_document("user", user) to its response.
SignupCreate(p) ==
    /\ pc[p] = "signup_create"
    /\ LET payload == req[p]
           u == UserSchema(payload.name, payload.email,
                           _hash_password(payload.password))
       IN \E accepted \in WriteOutcomes :
            IF accepted
            THEN /\ user' = create_document(user, u)
                 /\ \E token \in Tokens :
                      Finish(p, payload, AuthResponse(token, u.name, u.email))
            ELSE /\ Finish(p, payload, UnhandledFault)
                 /\ user' = user
    /\ UNCHANGED <<db, blogpost, contactmessage, idx>>

(* -------------------------------- login -------------------------------- *)

LoginRequest(email, password) ==
    [kind |-> "login", email |-> email, password |-> password]

\* login with a distinct answer for an unknown email.
LoginResponsesUnknownUser(users, password) ==
    IF users = EmptyBag
    THEN {HTTPException(404, "User not found")}
    ELSE LET user_doc == CHOOSE d \in DOMAIN users : TRUE
         IN IF user_doc.password_hash # _hash_password(password)
            THEN {HTTPException(401, "Invalid credentials")}
            ELSE {AuthResponse(token, user_doc.name, user_doc.email) :
                    token \in Tokens}

\* The responses of login once get_documents has returned `users`.
LoginResponses(users, password) ==
    IF users = EmptyBag
    THEN {HTTPException(401, "Invalid credentials")}
    ELSE LET user_doc == CHOOSE d \in DOMAIN users : TRUE
         IN IF user_doc.password_hash # _hash_password(password)
            THEN {HTTPException(401, "Invalid credentials")}
            ELSE {AuthResponse(token, user_doc.name, user_doc.email) :
                    token \in Tokens}

login(p) ==
    /\ pc[p] = "idle"
    /\ \E email \in Emails, password \in Passwords :
         LET payload == LoginRequest(email, password)
         IN IF ~Live
            THEN Finish(p, payload, UnhandledFault)
            ELSE \E users \in get_documents(user, [email |-> email], 1) :
                   \E r \in LoginResponses(users, password) :
                     Finish(p, payload, r)
    /\ UNCHANGED <<db, collections, idx>>

(* ----------------------------- blog listing ---------------------------- *)

BlogsRequest == [kind |-> "blogs"]

\* list_blogs reading the blogpost collection without a limit.
ListBlogsNoLimit(p) ==
    /\ pc[p] = "idle"
    /\ IF ~Live
       THEN Finish(p, BlogsRequest, UnhandledFault) /\ idx' = idx
       ELSE IF blogpost = EmptyBag
            THEN /\ Goto(p, BlogsRequest, "blogs_seed")
                 /\ idx' = [idx EXCEPT ![p] = 1]
            ELSE /\ Finish(p, BlogsRequest, BlogsResponse(blogpost))
                 /\ idx' = idx
    /\ UNCHANGED <<db, collections>>

\* list_blogs seeding whatever its first read returns.
ListBlogsAlwaysSeed(p) ==
    /\ pc[p] = "idle"
    /\ IF ~Live
       THEN Finish(p, BlogsRequest, UnhandledFault) /\ idx' = idx
       ELSE /\ Goto(p, BlogsRequest, "blogs_seed")
            /\ idx' = [idx EXCEPT ![p] = 1]
    /\ UNCHANGED <<db, collections>>

\* list_blogs, up to `if not docs`: the first get_documents("blogpost", {}, 20).
ListBlogs(p) ==
    /\ pc[p] = "idle"
    /\ IF ~Live
       THEN Finish(p, BlogsRequest, UnhandledFault) /\ idx' = idx
       ELSE \E docs \in get_documents(blogpost, NoFilter, BlogLimit) :
              IF docs = EmptyBag
              THEN /\ Goto(p, BlogsRequest, "blogs_seed")
                   /\ idx' = [idx EXCEPT ![p] = 1]
              ELSE /\ Finish(p, BlogsRequest, BlogsResponse(docs))
                   /\ idx' = idx
    /\ UNCHANGED <<db, collections>>

\* One round of `for s in samples: create_document("blogpost", s)`.
BlogsSeed(p) ==
    /\ pc[p] = "blogs_seed"
    /\ \E accepted \in WriteOutcomes :
         IF accepted
         THEN /\ blogpost' = create_document(blogpost, samples[idx[p]])
              /\ IF idx[p] = Len(samples)
                 THEN /\ Goto(p, req[p], "blogs_reread")
                      /\ idx' = [idx EXCEPT ![p] = 0]
                 ELSE /\ Goto(p, req[p], "blogs_seed")
                      /\ idx' = [idx EXCEPT ![p] = idx[p] + 1]
         ELSE /\ Finish(p, req[p], UnhandledFault)
              /\ idx' = [idx EXCEPT ![p] = 0]
              /\ blogpost' = blogpost
    /\ UNCHANGED <<db, user, contactmessage>>

\* The second get_documents("blogpost", {}, 20), after seeding, and the
\* mapping of the documents to the response.
BlogsReread(p) ==
    /\ pc[p] = "blogs_reread"
    /\ IF ~Live
       THEN Finish(p, req[p], UnhandledFault)
       ELSE \E docs \in get_documents(blogpost, NoFilter, BlogLimit) :
              Finish(p, req[p], BlogsResponse(docs))
    /\ UNCHANGED <<db, collections, idx>>

(* ------------------------------- contact ------------------------------- *)

ContactRequest(name, email, message) ==
    [kind |-> "contact", name |-> name, email |-> email, message |-> message]

\* contact answering "received" without waiting for the insert's outcome.
contactSwallowsFault(p) ==
    /\ pc[p] = "idle"
    /\ BagCardinality(contactmessage) < MaxContacts
    /\ \E name \in Names, email \in Emails, message \in Messages :
         LET payload == ContactRequest(name, email, message)
             msg == ContactMessageSchema(name, email, message)
         IN \E accepted \in WriteOutcomes :
              /\ contactmessage' = IF accepted
                                   THEN create_document(contactmessage, msg)
                                   ELSE contactmessage
              /\ Finish(p, payload, ContactResponse("received"))
    /\ UNCHANGED <<db, user, blogpost, idx>>

contact(p) ==
    /\ pc[p] = "idle"
    /\ BagCardinality(contactmessage) < MaxContacts
    /\ \E name \in Names, email \in Emails, message \in Messages :
         LET payload == ContactRequest(name, email, message)
             msg == ContactMessageSchema(name, email, message)
         IN \E accepted \in WriteOutcomes :
              IF accepted
              THEN /\ contactmessage' = create_document(contactmessage, msg)
                   /\ Finish(p, payload, ContactResponse("received"))
              ELSE /\ Finish(p, payload, UnhandledFault)
                   /\ contactmessage' = contactmessage
    /\ UNCHANGED <<db, user, blogpost, idx>>

(* ----------------------------- health probe ---------------------------- *)

\* db.list_collection_names(): the collections that hold a document.
list_collection_names ==
    {n \in {"user", "blogpost", "contactmessage"} :
        \/ n = "user" /\ user # EmptyBag
        \/ n = "blogpost" /\ blogpost # EmptyBag
        \/ n = "contactmessage" /\ contactmessage # EmptyBag}

\* GET /test without its try/except around list_collection_names.
test_databaseUncaught ==
    IF db = "none"
    THEN [status |-> 200,
          body |-> [backend |-> "Running",
                    database |-> "Available but not initialized",
                    connection_status |-> "Not Connected",
                    collections |-> {}]]
    ELSE IF db = "unreachable"
    THEN UnhandledFault
    ELSE [status |-> 200,
          body |-> [backend |-> "Running",
                    database |-> "Connected & Working",
                    connection_status |-> "Connected",
                    collections |-> list_collection_names]]

\* The payload of GET /test: every failure is caught and reported as text.
test_database ==
    IF db = "none"
    THEN [status |-> 200,
          body |-> [backend |-> "Running",
                    database |-> "Available but not initialized",
                    connection_status |-> "Not Connected",
                    collections |-> {}]]
    ELSE IF db = "unreachable"
    THEN [status |-> 200,
          body |-> [backend |-> "Running",
                    database |-> "Connected but Error",
                    connection_status |-> "Connected",
                    collections |-> {}]]
    ELSE [status |-> 200,
          body |-> [backend |-> "Running",
                    database |-> "Connected & Working",
                    connection_status |-> "Connected",
                    collections |-> list_collection_names]]

Health(p) ==
    /\ pc[p] = "idle"
    /\ Finish(p, [kind |-> "test"], test_database)
    /\ UNCHANGED <<db, collections, idx>>

(* ----------------------------- environment ----------------------------- *)

\* The response is delivered; the worker takes the next request.
Return(p) ==
    /\ pc[p] = "done"
    /\ pc' = [pc EXCEPT ![p] = "idle"]
    /\ out' = IF out.proc = p THEN NoOut ELSE out
    /\ UNCHANGED <<db, collections, req, idx>>

\* The store becomes unreachable; the adapter never reconnects.
ConnectionLost ==
    /\ db = "connected"
    /\ db' = "unreachable"
    /\ UNCHANGED <<collections, pc, req, idx, out>>

(* ---------------------------- specifications --------------------------- *)

InitWith(workers, dbs, blogs) ==
    /\ db \in dbs
    /\ user = EmptyBag
    /\ blogpost \in blogs
    /\ contactmessage = EmptyBag
    /\ pc = [p \in workers |-> "idle"]
    /\ req = [p \in workers |-> NoReq]
    /\ idx = [p \in workers |-> 0]
    /\ out = NoOut

\* A fresh store; it is connected, unreachable or not configured at process
\* start.
Init == \E workers \in Pools :
          InitWith(workers, {"connected", "unreachable", "none"}, {EmptyBag})

Next ==
    \/ \E p \in Procs : Signup(p)
    \/ \E p \in Procs : SignupCreate(p)
    \/ \E p \in Procs : login(p)
    \/ \E p \in Procs : ListBlogs(p)
    \/ \E p \in Procs : BlogsSeed(p)
    \/ \E p \in Procs : BlogsReread(p)
    \/ \E p \in Procs : contact(p)
    \/ \E p \in Procs : Health(p)
    \/ \E p \in Procs : Return(p)
    \/ ConnectionLost

Spec == Init /\ [][Next]_vars

\* The auth handlers alone, with more than one name to sign up under.
NextAuth ==
    \/ \E p \in Procs : SignupAuth(p)
    \/ \E p \in Procs : SignupCreate(p)
    \/ \E p \in Procs : login(p)
    \/ \E p \in Procs : Return(p)
    \/ ConnectionLost

SpecAuth == Init /\ [][NextAuth]_vars

\* The blogpost collections that seeding runs leave in the store: every run
\* inserts a prefix of samples (all of it unless an insert failed), so the
\* i-th sample is held at most as often as the one before it.
SeededBlogs ==
    LET counts == {c \in [1..Len(samples) -> 0..MaxSeeders] :
                     \A i \in 1..(Len(samples) - 1) : c[i] >= c[i + 1]}
        bag(c) == [d \in {samples[i] : i \in {j \in 1..Len(samples) : c[j] > 0}}
                     |-> c[CHOOSE i \in 1..Len(samples) : samples[i] = d]]
    IN {bag(c) : c \in counts}

\* The blog listing alone, against a connected store that holds what earlier
\* seeding runs left in it.
InitListing == \E workers \in Pools :
                 InitWith(workers, {"connected"}, SeededBlogs)

NextListing ==
    \/ \E p \in Procs : ListBlogs(p)
    \/ \E p \in Procs : BlogsSeed(p)
    \/ \E p \in Procs : BlogsReread(p)
    \/ \E p \in Procs : Return(p)

SpecListing == InitListing /\ [][NextListing]_vars

(* ------------------------------- claims -------------------------------- *)

\* Worker p takes a step that answers a request of the given kind.
Answers(p, kind) ==
    /\ pc[p] # "done"
    /\ pc'[p] = "done"
    /\ out'.proc = p
    /\ out'.req.kind = kind

\* The handling of a request of the given kind starts and ends in one step
\* of worker p.
Handles(p, kind) == pc[p] = "idle" /\ Answers(p, kind)

HoldsEmail(email) == \E d \in DOMAIN user : d.email = email

\* The credentials under which a signup has succeeded.
SignedUp ==
    {c \in Emails \X Passwords :
       \E d \in DOMAIN user :
         d.email = c[1] /\ d.password_hash = _hash_password(c[2])}

IsAuthSuccess(r) ==
    /\ r.status = 200
    /\ r.body.token \in Tokens

\* C1: a signup that found its email unused and whose insert the store
\* accepted succeeds with a token, and every login that starts after it,
\* with the same email and password and over a live connection, succeeds
\* with a token.
C1_SignupThenLogin ==
    [][\A p \in Procs :
         /\ (Answers(p, "signup") /\ pc[p] = "signup_create" /\ user' # user)
              => IsAuthSuccess(out'.resp)
         /\ (Handles(p, "login") /\ Live
               /\ <<out'.req.email, out'.req.password>> \in SignedUp)
              => IsAuthSuccess(out'.resp) /\ out'.resp.body.email = out'.req.email
      ]_vars

\* C2: the user collection never holds two documents with the same email.
C2_UniqueEmail ==
    \A email \in Emails :
      BagCardinality(Matching(user, [email |-> email])) <= 1

SamplesBag == SetToBag({samples[i] : i \in 1..Len(samples)})

\* C5: with requests handled one at a time, every blog listing that is
\* answered returns exactly the 3 demo posts, and the blogpost collection
\* then holds exactly these 3, each published.
C5_SeedOnce ==
    (Procs = {1} /\ out.req.kind = "blogs" /\ out.resp.status = 200)
      => /\ out.resp.body = BlogItems(SamplesBag)
         /\ blogpost = SamplesBag
         /\ \A d \in DOMAIN blogpost : d.published

\* C6 as stated: every contact submission is answered "received" and adds
\* exactly one document with the submitted fields, leaving the user and
\* blogpost collections as they are.
C6_ContactAlwaysReceived ==
    [][\A p \in Procs :
         Handles(p, "contact") =>
           /\ out'.resp = [status |-> 200, body |-> [status |-> "received"]]
           /\ contactmessage' =
                contactmessage (+) SetToBag({[name |-> out'.req.name,
                                              email |-> out'.req.email,
                                              message |-> out'.req.message]})
           /\ user' = user
           /\ blogpost' = blogpost
      ]_vars

\* C6 amended: a contact submission either is answered "received" and adds
\* exactly one document with the submitted fields, or fails with 500 and
\* adds nothing, and it fails whenever the connection is not live; either
\* way it leaves the user and blogpost collections as they are.
C6_ContactReceivedOrFault ==
    [][\A p \in Procs :
         Handles(p, "contact") =>
           /\ \/ /\ out'.resp = [status |-> 200, body |-> [status |-> "received"]]
                 /\ Live
                 /\ contactmessage' =
                      contactmessage (+) SetToBag({[name |-> out'.req.name,
                                                    email |-> out'.req.email,
                                                    message |-> out'.req.message]})
              \/ /\ out'.resp.status = 500
                 /\ contactmessage' = contactmessage
           /\ user' = user
           /\ blogpost' = blogpost
      ]_vars

\* C6 witness: a contact submission was answered "received", its document
\* is stored, and the user and blogpost collections hold documents.
C6_Witness ==
    /\ out.req.kind = "contact"
    /\ out.resp.status = 200
    /\ out.resp.body.status = "received"
    /\ BagIn([name |-> out.req.name, email |-> out.req.email,
              message |-> out.req.message], contactmessage)
    /\ user # EmptyBag
    /\ blogpost # EmptyBag

\* C7: without a live connection every step of signup, login, blog listing
\* and contact ends the request at once with a fault (no further store
\* call), the health probe is answered 200 with the condition as text, and
\* no collection changes.
C7_UnavailableFailsFast ==
    [][\A p \in Procs :
         (~Live /\ pc'[p] # pc[p] /\ pc[p] # "done") =>
           /\ pc'[p] = "done"
           /\ out'.proc = p
           /\ collections' = collections
           /\ out'.req.kind \in {"signup", "login", "blogs", "contact", "test"}
           /\ IF out'.req.kind = "test"
              THEN /\ out'.resp.status = 200
                   /\ out'.resp.body.database \in
                        {"Available but not initialized", "Connected but Error"}
              ELSE out'.resp = [status |-> 500,
                                body |-> [detail |-> "Internal Server Error"]]
      ]_vars

\* C7 witness: the connection was lost in the middle of a handler, which
\* then failed, and the collections hold documents.
C7_Witness ==
    /\ db = "unreachable"
    /\ out.req.kind \in {"signup", "blogs"}
    /\ out.resp.status = 500
    /\ user # EmptyBag
    /\ blogpost # EmptyBag

\* C8: get_documents with an empty filter and limit 20 returns at most 20
\* documents of the blogpost collection, and a blog listing response holds
\* at most 20 items.
C8_ListingAtMost20 ==
    /\ \A docs \in get_documents(blogpost, NoFilter, 20) :
         BagCardinality(docs) <= 20
    /\ (out.req.kind = "blogs" /\ out.resp.status = 200)
         => BagCardinality(out.resp.body) <= 20

\* C8 witness: the blogpost collection holds more than 20 documents and a
\* blog listing was answered with 20 items.
C8_Witness ==
    /\ BagCardinality(blogpost) > 20
    /\ out.req.kind = "blogs"
    /\ out.resp.status = 200
    /\ BagCardinality(out.resp.body) = 20

\* C9: with requests handled one at a time the blogpost collection never
\* holds a demo post twice (so never more than 3 documents).
C9_SequentialNoDoubleSeed ==
    Procs = {1} =>
      /\ \A d \in DOMAIN blogpost : CopiesIn(d, blogpost) = 1
      /\ BagCardinality(blogpost) <= 3

\* C9 witness: with two concurrent workers both seeded: the collection holds
\* more than 3 documents, two of them with the same slug.
C9_Witness ==
    /\ Procs = {1, 2}
    /\ BagCardinality(blogpost) > 3
    /\ \E d \in DOMAIN blogpost : CopiesIn(d, blogpost) > 1

\* C10: whenever no blog listing is inside its seeding loop, the blogpost
\* collection holds no demo posts or at least the full set of 3, never 1 or 2.
C10_NoPartialSeed ==
    (\A p \in Procs : pc[p] # "blogs_seed")
      => BagCardinality(blogpost) \notin {1, 2}

====
